---- MODULE Spec2Model ----
(***************************************************************************)
(* I2C master driver for the PIC18 MSSP peripheral (src/i2c.c).            *)
(*                                                                         *)
(* The main execution path runs one driver primitive at a time; pc is the  *)
(* source line it is about to execute.  The interrupt handler              *)
(* i2c_interrupt preempts the main path between any two of its steps and   *)
(* runs to completion before the main path resumes; ipc is the source line *)
(* of the handler.  The MSSP hardware runs concurrently with both.         *)
(***************************************************************************)
EXTENDS Integers, Sequences, FiniteSets, TLC

(* ------------------------------------------------------------------ *)
(* Bounds of the model                                                  *)
(* ------------------------------------------------------------------ *)

\* primitives called after i2c_init_master in a free run
MaxCalls == 2

\* polls of one idle-wait that the history counter tells apart
MaxPolls == 2

(* ------------------------------------------------------------------ *)
(* Registers and bit arithmetic                                         *)
(* ------------------------------------------------------------------ *)

Byte == 0..255

Pow2(i) == 2^i

BitAt(v, i) == (v \div Pow2(i)) % 2

SetBit(v, i) == IF BitAt(v, i) = 1 THEN v ELSE v + Pow2(i)

ClrBit(v, i) == IF BitAt(v, i) = 1 THEN v - Pow2(i) ELSE v

PutBit(v, i, b) == IF b = 1 THEN SetBit(v, i) ELSE ClrBit(v, i)

RECURSIVE AndBits(_, _, _)
AndBits(a, b, n) ==
    IF n = 0 THEN 0
    ELSE (a % 2) * (b % 2) + 2 * AndBits(a \div 2, b \div 2, n - 1)

\* a & b on 8-bit operands
BitAnd(a, b) == AndBits(a, b, 8)

RECURSIVE OrBits(_, _, _)
OrBits(a, b, n) ==
    IF n = 0 THEN 0
    ELSE (IF (a % 2) + (b % 2) > 0 THEN 1 ELSE 0)
         + 2 * OrBits(a \div 2, b \div 2, n - 1)

\* a | b on 8-bit operands
BitOr(a, b) == OrBits(a, b, 8)

\* SSPCON2 bit positions: the bits i2c_check_idle masks with 0x1F are
\* SEN, RSEN, PEN, RCEN, ACKEN (bits 0..4); ACKDT and ACKSTAT follow.
SEN == 0
RSEN == 1
PEN == 2
RCEN == 3
ACKEN == 4
ACKDT == 5
ACKSTAT == 6

\* SSPSTAT bit positions: BF (buffer full) and R/W (transmit in progress),
\* the two bits of the mask 0x5; 0x4 is R/W alone.
BF == 0
R_nW == 2

\* the literal of i2c_check_idle's condition
CondMask == 31

\* the masks the primitives pass to i2c_check_idle
MaskBfRw == 5
MaskRw == 4

\* mutant: the divisor of the 400 kHz fast mode, SSPADD = 0x1D
SspAddFast == 29

\* SSPCON1 = 0b00101000, SSPADD = 0x77
MasterMode == 40
SspAddValue == 119

\* this code uses 48 MHz for the CPU clock, the bus runs at 100 kHz
FOSC == 48000000
BusRate == 100000

\* clock = FOSC / ((SSPADD + 1) * 4), solved for SSPADD
Divisor(clock, rate) == (clock \div (4 * rate)) - 1

\* mutant: the sum is not reduced to 8 bits
AddrByteWide(adrs, rw) == (adrs * 2) + rw

\* mutant: the address is not shifted
AddrByteUnshifted(adrs, rw) == (adrs + rw) % 256

\* (unsigned char)((adrs << 1) + rw) of i2c_start: the low 8 bits
AddrByte(adrs, rw) == ((adrs * 2) + rw) % 256

\* mutant: the direction bit is left out
RstartByteNoDirection(adrs, rw) == (adrs * 2) % 256

\* (char)((adrs << 1) + rw) of i2c_rstart, stored in the 8 bits of SSPBUF
RstartByte(adrs, rw) == (((adrs * 2) + rw) % 256) % 256

(* ------------------------------------------------------------------ *)
(* State                                                                *)
(* ------------------------------------------------------------------ *)

VARIABLES
    SSPCON1, SSPCON2, SSPSTAT, SSPADD, SSPBUF,  \* MSSP registers
    SSPIF, BCLIF,                               \* interrupt flags
    ien,                                        \* SSPIE, BCLIE, PEIE, GIE
    ack_flag,                                   \* int ack_flag
    pc, op, arg,                                \* main path: line, primitive, arguments
    mask, retpc, snap,                          \* i2c_check_idle: parameter, caller, reads
    dt, ret,                                    \* local of i2c_receive, returned value
    ipc,                                        \* i2c_interrupt: line, "none" when not running
    scen, ncalls,                               \* caller: scenario and calls made
    trail,                                      \* history: steps of the current primitive
    armsOpen,                                   \* history: arms the handler has not cleared yet
    clearsOpen,                                 \* history: handler clears no wait has consumed yet
    npoll,                                      \* history: polls of the current idle-wait
    lastNack,                                   \* history: the peer's latest answer
    entryFlag,                                  \* history: ack_flag when the handler was entered
    hlog                                        \* history: what the running handler has done

vars == <<SSPCON1, SSPCON2, SSPSTAT, SSPADD, SSPBUF, SSPIF, BCLIF, ien,
          ack_flag, pc, op, arg, mask, retpc, snap, dt, ret, ipc, scen,
          ncalls, trail, armsOpen, clearsOpen, npoll, lastNack, entryFlag,
          hlog>>

hwVars == <<SSPCON1, SSPCON2, SSPSTAT, SSPADD, SSPBUF, SSPIF, BCLIF, ien>>

mainVars == <<pc, op, arg, mask, retpc, snap, dt, ret, ncalls, trail, npoll>>

flagHist == <<armsOpen, clearsOpen>>

NoArg == [adrs |-> 0, rw |-> 0, dt |-> 0, ack |-> 0]

NoSnap == [con2 |-> -1, stat |-> -1]

\* the condition-active bits of SSPCON2
CondBits(con2) == BitAnd(con2, CondMask)

(* ------------------------------------------------------------------ *)
(* The caller                                                           *)
(* ------------------------------------------------------------------ *)

\* arguments of the free runs
FreeAddrs == {80}
FreeData == {16, 255}
RxData == {0, 165}

Scenarios == {"free", "frame", "txn", "nopeer"}

\* the fixed call sequences of the two transaction scenarios
Program(s) ==
    CASE s = "txn" ->
           << [op |-> "i2c_start", arg |-> [NoArg EXCEPT !.adrs = 80]],
              [op |-> "i2c_send", arg |-> [NoArg EXCEPT !.dt = 16]],
              [op |-> "i2c_stop", arg |-> NoArg] >>
      [] s = "nopeer" ->
           << [op |-> "i2c_start", arg |-> [NoArg EXCEPT !.adrs = 80]],
              [op |-> "i2c_stop", arg |-> NoArg] >>
      [] OTHER -> << >>

AddrCalls(fn, addrs) ==
    { [op |-> fn, arg |-> [NoArg EXCEPT !.adrs = a, !.rw = d]] :
        a \in addrs, d \in {0, 1} }

FreeCalls ==
    AddrCalls("i2c_start", FreeAddrs) \cup AddrCalls("i2c_rstart", FreeAddrs)
    \cup { [op |-> "i2c_send", arg |-> [NoArg EXCEPT !.dt = b]] : b \in FreeData }
    \cup { [op |-> "i2c_receive", arg |-> [NoArg EXCEPT !.ack = k]] : k \in {0, 1} }
    \cup { [op |-> "i2c_stop", arg |-> NoArg] }

\* the calls the caller may make next
NextCalls ==
    CASE scen = "free" -> IF ncalls < MaxCalls THEN FreeCalls ELSE {}
      [] scen = "frame" ->
           IF ncalls < 1
           THEN AddrCalls("i2c_start", Byte) \cup AddrCalls("i2c_rstart", Byte)
           ELSE {}
      [] OTHER ->
           IF ncalls < Len(Program(scen))
           THEN {Program(scen)[ncalls + 1]}
           ELSE {}

\* the answers the peer may give to a byte: 0 acknowledges, 1 does not
PeerAnswers ==
    CASE scen = "txn" -> {0}
      [] scen = "nopeer" -> {1}
      [] OTHER -> {0, 1}

FirstLine(fn) ==
    CASE fn = "i2c_start" -> "L107"
      [] fn = "i2c_rstart" -> "L128"
      [] fn = "i2c_stop" -> "L144"
      [] fn = "i2c_send" -> "L156"
      [] fn = "i2c_receive" -> "L173"

InitFor(s) ==
    /\ SSPCON1 = 0 /\ SSPCON2 = 0 /\ SSPSTAT = 0 /\ SSPADD = 0 /\ SSPBUF = 0
    /\ SSPIF = 0 /\ BCLIF = 0
    /\ ien = [SSPIE |-> 0, BCLIE |-> 0, PEIE |-> 0, GIE |-> 0]
    /\ ack_flag = 0
    /\ pc = "reset" /\ op = "none" /\ arg = NoArg
    /\ mask = 0 /\ retpc = "none" /\ snap = NoSnap
    /\ dt = 0 /\ ret = -1
    /\ ipc = "none"
    /\ scen = s /\ ncalls = 0
    /\ trail = << >>
    /\ armsOpen = 0 /\ clearsOpen = 0 /\ npoll = 0
    /\ lastNack = 0
    /\ entryFlag = 0
    /\ hlog = <<>>

\* the main path runs only while the handler does not
MainRuns == ipc = "none"

\* the caller invokes i2c_init_master once, first
Call_init ==
    /\ MainRuns /\ pc = "reset"
    /\ pc' = "L73" /\ op' = "i2c_init_master"
    /\ UNCHANGED <<hwVars, ack_flag, arg, mask, retpc, snap, dt, ret, ipc, scen,
                   ncalls, trail, npoll, flagHist, lastNack, entryFlag, hlog>>

CallOf(fn) ==
    /\ \E c \in NextCalls :
         /\ c.op = fn
         /\ op' = fn /\ arg' = c.arg /\ pc' = FirstLine(fn)
    /\ ncalls' = ncalls + 1
    /\ trail' = << >> /\ ret' = -1 /\ snap' = NoSnap
    /\ UNCHANGED <<hwVars, ack_flag, mask, retpc, dt, ipc, scen, npoll, flagHist,
                   lastNack, entryFlag, hlog>>

Call_start ==
    /\ MainRuns /\ pc = "caller"
    /\ CallOf("i2c_start")

Call_rstart ==
    /\ MainRuns /\ pc = "caller"
    /\ CallOf("i2c_rstart")

Call_stop ==
    /\ MainRuns /\ pc = "caller"
    /\ CallOf("i2c_stop")

Call_send ==
    /\ MainRuns /\ pc = "caller"
    /\ CallOf("i2c_send")

Call_receive ==
    /\ MainRuns /\ pc = "caller"
    /\ CallOf("i2c_receive")

(* ------------------------------------------------------------------ *)
(* The MSSP hardware                                                    *)
(* ------------------------------------------------------------------ *)

\* a start, repeated-start, stop or acknowledge condition completes: the
\* hardware clears its enable bit and raises SSPIF
HwCondDone ==
    /\ \E b \in {SEN, RSEN, PEN, ACKEN} :
         /\ BitAt(SSPCON2, b) = 1
         /\ SSPCON2' = ClrBit(SSPCON2, b)
    /\ SSPIF' = 1
    /\ UNCHANGED <<SSPCON1, SSPSTAT, SSPADD, SSPBUF, BCLIF, ien, ack_flag,
                   mainVars, ipc, scen, flagHist, lastNack, entryFlag, hlog>>

\* a reception completes: the byte is in SSPBUF, BF is set, RCEN is
\* cleared and SSPIF is raised
HwRxDone ==
    /\ BitAt(SSPCON2, RCEN) = 1
    /\ \E b \in RxData : SSPBUF' = b
    /\ SSPCON2' = ClrBit(SSPCON2, RCEN)
    /\ SSPSTAT' = SetBit(SSPSTAT, BF)
    /\ SSPIF' = 1
    /\ UNCHANGED <<SSPCON1, SSPADD, BCLIF, ien, ack_flag, mainVars, ipc, scen,
                   flagHist, lastNack, entryFlag, hlog>>

\* the eighth bit of a transmitted byte has been shifted out: BF is cleared
HwTxShift ==
    /\ BitAt(SSPSTAT, R_nW) = 1 /\ BitAt(SSPSTAT, BF) = 1
    /\ SSPSTAT' = ClrBit(SSPSTAT, BF)
    /\ UNCHANGED <<SSPCON1, SSPCON2, SSPADD, SSPBUF, SSPIF, BCLIF, ien,
                   ack_flag, mainVars, ipc, scen, flagHist, lastNack, entryFlag, hlog>>

\* the ninth clock of a transmitted byte: the peer's answer is latched in
\* ACKSTAT, the transmit ends (R/W cleared) and SSPIF is raised
HwTxAck ==
    /\ BitAt(SSPSTAT, R_nW) = 1 /\ BitAt(SSPSTAT, BF) = 0
    /\ \E a \in PeerAnswers :
         /\ SSPCON2' = PutBit(SSPCON2, ACKSTAT, a)
         /\ lastNack' = a
    /\ SSPSTAT' = ClrBit(SSPSTAT, R_nW)
    /\ SSPIF' = 1
    /\ UNCHANGED <<SSPCON1, SSPADD, SSPBUF, BCLIF, ien, ack_flag, mainVars,
                   ipc, scen, flagHist, entryFlag, hlog>>

\* the master is driving the bus: a condition or a transmit is in progress
Driving == CondBits(SSPCON2) # 0 \/ BitAt(SSPSTAT, R_nW) = 1

\* another master interferes while this one drives the bus: the hardware
\* raises BCLIF
HwCollision ==
    /\ Driving /\ BCLIF = 0
    /\ BCLIF' = 1
    /\ UNCHANGED <<SSPCON1, SSPCON2, SSPSTAT, SSPADD, SSPBUF, SSPIF, ien,
                   ack_flag, mainVars, ipc, scen, flagHist, lastNack, entryFlag, hlog>>

\* a write of SSPBUF by the main path: the byte is loaded and the
\* transmit starts (BF and R/W set)
LoadBuffer(b) ==
    /\ SSPBUF' = b
    /\ SSPSTAT' = SetBit(SetBit(SSPSTAT, BF), R_nW)

(* ------------------------------------------------------------------ *)
(* The interrupt handler                                                *)
(* ------------------------------------------------------------------ *)

\* the MSSP interrupt is pending and enabled
MsspPending ==
    /\ ien.GIE = 1 /\ ien.PEIE = 1
    /\ \/ SSPIF = 1 /\ ien.SSPIE = 1
       \/ BCLIF = 1 /\ ien.BCLIE = 1

EnterHandler ==
    /\ ipc = "none"
    /\ ipc' = "L54"
    /\ entryFlag' = ack_flag
    /\ hlog' = <<>>
    /\ UNCHANGED <<hwVars, ack_flag, mainVars, scen, flagHist, lastNack>>

\* the global interrupt function calls i2c_interrupt for an MSSP interrupt
Dispatch ==
    /\ MsspPending
    /\ EnterHandler

\* ... and for an interrupt of any other source
OtherInterrupt ==
    /\ ien.GIE = 1 /\ ~MsspPending
    /\ EnterHandler

\* mutant: the handler does not test SSPIF
SignalPendingUntested == TRUE

\* if (SSPIF == 1)
SignalPending == SSPIF = 1

\* mutant: if (ack_flag == 0)
FlagSetInverted == ack_flag = 0

\* if (ack_flag == 1)
FlagSet == ack_flag = 1

\* if (BCLIF == 1)
ConflictPending == BCLIF = 1

\* the handler returns
Leave == ipc' = "none" /\ entryFlag' = 0 /\ hlog' = <<>>

\* the handler's history gains one step
Log(what) == hlog' = Append(hlog, what)

\* mutant: SSPIF = 0 moved inside the test of ack_flag
AfterFlagTestSkipsClear == IF FlagSet THEN "L56" ELSE "L60"

\* where if (ack_flag == 1) { ... } continues
AfterFlagTest == IF FlagSet THEN "L56" ELSE "L58"

\* mutant: BCLIF = 0 also releases the waiting call
ClearConflictReleases ==
    /\ BCLIF' = 0
    /\ ack_flag' = 0
    /\ UNCHANGED <<SSPIF, flagHist>>

\* BCLIF = 0
ClearConflict ==
    /\ BCLIF' = 0
    /\ UNCHANGED <<ack_flag, SSPIF, flagHist>>

i2c_interrupt ==
    /\ ipc # "none"
    /\ \/ /\ ipc = "L54"
          /\ IF SignalPending
             THEN ipc' = "L55" /\ Log("pending")
             ELSE ipc' = "L60" /\ UNCHANGED hlog
          /\ UNCHANGED <<ack_flag, SSPIF, BCLIF, flagHist, entryFlag>>
       \/ /\ ipc = "L55"
          /\ ipc' = AfterFlagTest
          /\ UNCHANGED <<ack_flag, SSPIF, BCLIF, flagHist, entryFlag, hlog>>
       \/ /\ ipc = "L56"
          /\ ack_flag' = 0
          /\ armsOpen' = armsOpen - 1
          /\ clearsOpen' = clearsOpen + 1
          /\ ipc' = "L58"
          /\ Log("flag0")
          /\ UNCHANGED <<SSPIF, BCLIF, entryFlag>>
       \/ /\ ipc = "L58"
          /\ SSPIF' = 0
          /\ ipc' = "L60"
          /\ Log("sspif0")
          /\ UNCHANGED <<ack_flag, BCLIF, flagHist, entryFlag>>
       \/ /\ ipc = "L60"
          /\ IF ConflictPending
             THEN ipc' = "L61" /\ Log("conflict") /\ UNCHANGED entryFlag
             ELSE Leave
          /\ UNCHANGED <<ack_flag, SSPIF, BCLIF, flagHist>>
       \/ /\ ipc = "L61"
          /\ ClearConflict
          /\ Leave
    /\ UNCHANGED <<SSPCON1, SSPCON2, SSPSTAT, SSPADD, SSPBUF, ien, mainVars,
                   scen, lastNack>>

(* ------------------------------------------------------------------ *)
(* The main path                                                        *)
(* ------------------------------------------------------------------ *)

Ev(kind, value) == [ev |-> kind, v |-> value]

\* what no statement of the main path writes
mainFrame == <<ipc, scen, lastNack, entryFlag, hlog>>

\* what no statement of a transaction primitive writes
primFrame == <<SSPCON1, SSPADD, SSPIF, BCLIF, ien, arg, ncalls, mainFrame>>

\* i2c_check_idle(m); control returns to line back
CheckIdle(m, back) ==
    /\ pc' = "L44" /\ mask' = m /\ retpc' = back
    /\ snap' = NoSnap /\ npoll' = 0
    /\ UNCHANGED <<SSPCON2, SSPSTAT, SSPBUF, ack_flag, op, dt, ret, trail,
                   flagHist>>

\* return v to the caller (-1: the primitive returns nothing)
Return(v) ==
    /\ pc' = "caller" /\ op' = "none" /\ ret' = v
    /\ trail' = Append(trail, Ev("ret", v))
    /\ UNCHANGED <<SSPCON2, SSPSTAT, SSPBUF, ack_flag, mask, retpc, snap, dt,
                   flagHist, npoll>>

\* one register of the snapshot is still to be read
Partial(s) == (s.con2 = -1) # (s.stat = -1)

\* the snapshot once the other register is read
Complete(s) ==
    IF s.con2 = -1 THEN [s EXCEPT !.con2 = SSPCON2]
    ELSE [s EXCEPT !.stat = SSPSTAT]

\* mutant: the status register is left out of the condition
IdleExprNoStatus(s, m) == BitAnd(s.con2, CondMask)

\* mutant: RCEN is left out of the condition bits tested
IdleExprNoRcen(s, m) ==
    BitOr(BitAnd(ClrBit(s.con2, RCEN), CondMask), BitAnd(s.stat, m))

\* (SSPCON2 & 0x1F) | (SSPSTAT & mask), the condition of the while loop
IdleExpr(s, m) == BitOr(BitAnd(s.con2, CondMask), BitAnd(s.stat, m))

\* the loop goes round
Busy(s, m) == IdleExpr(s, m) # 0

\* while ((SSPCON2 & 0x1F) | (SSPSTAT & mask));  the two registers are read
\* one after the other, in either order, and the hardware may act between
i2c_check_idle ==
    /\ MainRuns /\ pc = "L44"
    /\ \/ /\ ~Partial(snap)
          /\ \/ snap' = [con2 |-> SSPCON2, stat |-> -1]
             \/ snap' = [con2 |-> -1, stat |-> SSPSTAT]
          /\ UNCHANGED <<pc, mask, retpc, trail, npoll>>
       \/ /\ Partial(snap)
          /\ snap' = NoSnap
          /\ IF Busy(Complete(snap), mask)
             THEN /\ npoll' = IF npoll < MaxPolls THEN npoll + 1 ELSE npoll
                  /\ UNCHANGED <<pc, mask, retpc, trail>>
             ELSE /\ pc' = retpc
                  /\ mask' = 0 /\ retpc' = "none"
                  /\ trail' = Append(trail, Ev("idle", mask))
                  /\ UNCHANGED npoll
    /\ UNCHANGED <<hwVars, ack_flag, op, arg, dt, ret, ncalls, flagHist,
                   mainFrame>>

i2c_init_master ==
    /\ MainRuns /\ op = "i2c_init_master"
    /\ \/ /\ pc = "L73" /\ SSPCON1' = MasterMode /\ pc' = "L74"
          /\ UNCHANGED <<SSPSTAT, SSPADD, SSPIF, BCLIF, ien, op>>
       \/ /\ pc = "L74" /\ SSPSTAT' = SSPSTAT % 64 /\ pc' = "L75"
          /\ UNCHANGED <<SSPCON1, SSPADD, SSPIF, BCLIF, ien, op>>
       \/ /\ pc = "L75" /\ SSPADD' = SspAddValue /\ pc' = "L89"
          /\ UNCHANGED <<SSPCON1, SSPSTAT, SSPIF, BCLIF, ien, op>>
       \/ /\ pc = "L89" /\ ien' = [ien EXCEPT !.SSPIE = 1] /\ pc' = "L90"
          /\ UNCHANGED <<SSPCON1, SSPSTAT, SSPADD, SSPIF, BCLIF, op>>
       \/ /\ pc = "L90" /\ ien' = [ien EXCEPT !.BCLIE = 1] /\ pc' = "L91"
          /\ UNCHANGED <<SSPCON1, SSPSTAT, SSPADD, SSPIF, BCLIF, op>>
       \/ /\ pc = "L91" /\ ien' = [ien EXCEPT !.PEIE = 1] /\ pc' = "L92"
          /\ UNCHANGED <<SSPCON1, SSPSTAT, SSPADD, SSPIF, BCLIF, op>>
       \/ /\ pc = "L92" /\ ien' = [ien EXCEPT !.GIE = 1] /\ pc' = "L93"
          /\ UNCHANGED <<SSPCON1, SSPSTAT, SSPADD, SSPIF, BCLIF, op>>
       \/ /\ pc = "L93" /\ SSPIF' = 0 /\ pc' = "L94"
          /\ UNCHANGED <<SSPCON1, SSPSTAT, SSPADD, BCLIF, ien, op>>
       \/ /\ pc = "L94" /\ BCLIF' = 0 /\ pc' = "caller" /\ op' = "none"
          /\ UNCHANGED <<SSPCON1, SSPSTAT, SSPADD, SSPIF, ien>>
    /\ UNCHANGED <<SSPCON2, SSPBUF, ack_flag, arg, mask, retpc, snap, dt, ret,
                   ncalls, trail, npoll, flagHist, mainFrame>>

\* SSPCON2bits.<bit> = 1
AssertCond(bit, next) ==
    /\ SSPCON2' = SetBit(SSPCON2, bit)
    /\ trail' = Append(trail, Ev("set", bit))
    /\ pc' = next
    /\ UNCHANGED <<SSPSTAT, SSPBUF, ack_flag, op, mask, retpc, snap, dt, ret,
                   flagHist, npoll>>

\* ack_flag = 1
Arm(next) ==
    /\ ack_flag' = 1
    /\ armsOpen' = armsOpen + 1
    /\ trail' = Append(trail, Ev("arm", 1))
    /\ pc' = next
    /\ UNCHANGED <<SSPCON2, SSPSTAT, SSPBUF, op, mask, retpc, snap, dt, ret,
                   clearsOpen, npoll>>

\* SSPBUF = b
Load(b, next) ==
    /\ LoadBuffer(b)
    /\ trail' = Append(trail, Ev("load", b))
    /\ pc' = next
    /\ UNCHANGED <<SSPCON2, ack_flag, op, mask, retpc, snap, dt, ret,
                   flagHist, npoll>>

\* mutant: while (!ack_flag)
FlagArmedInverted == ack_flag = 0

\* the condition of while (ack_flag);
FlagArmed == ack_flag # 0

\* while (ack_flag);  one evaluation of the condition
Spin(next) ==
    /\ IF FlagArmed
       THEN UNCHANGED <<pc, clearsOpen, trail>>
       ELSE /\ pc' = next
            /\ clearsOpen' = clearsOpen - 1
            /\ trail' = Append(trail, Ev("wait", 0))
    /\ UNCHANGED <<SSPCON2, SSPSTAT, SSPBUF, ack_flag, op, mask, retpc, snap,
                   dt, ret, armsOpen, npoll>>

\* mutant: the acknowledge data bit is returned for the status bit
AckStatusReadsAckdt == BitAt(SSPCON2, ACKDT)

\* SSPCON2bits.ACKSTAT
AckStatus == BitAt(SSPCON2, ACKSTAT)

i2c_start ==
    /\ MainRuns /\ op = "i2c_start"
    /\ \/ pc = "L107" /\ CheckIdle(MaskBfRw, "L108")
       \/ pc = "L108" /\ AssertCond(SEN, "L111")
       \/ pc = "L111" /\ CheckIdle(MaskBfRw, "L112")
       \/ pc = "L112" /\ Arm("L113")
       \/ pc = "L113" /\ Load(AddrByte(arg.adrs, arg.rw), "L114")
       \/ pc = "L114" /\ Spin("L115")
       \/ pc = "L115" /\ Return(AckStatus)
    /\ UNCHANGED primFrame

i2c_rstart ==
    /\ MainRuns /\ op = "i2c_rstart"
    /\ \/ pc = "L128" /\ CheckIdle(MaskBfRw, "L129")
       \/ pc = "L129" /\ AssertCond(RSEN, "L132")
       \/ pc = "L132" /\ CheckIdle(MaskBfRw, "L133")
       \/ pc = "L133" /\ Arm("L134")
       \/ pc = "L134" /\ Load(RstartByte(arg.adrs, arg.rw), "L135")
       \/ pc = "L135" /\ Spin("L136")
       \/ pc = "L136" /\ Return(AckStatus)
    /\ UNCHANGED primFrame

\* mutant: the stop condition is asserted without the idle-wait
i2c_stopNoWait ==
    /\ MainRuns /\ op = "i2c_stop"
    /\ \/ pc = "L144" /\ AssertCond(PEN, "L146")
       \/ pc = "L146" /\ Return(-1)
    /\ UNCHANGED primFrame

i2c_stop ==
    /\ MainRuns /\ op = "i2c_stop"
    /\ \/ pc = "L144" /\ CheckIdle(MaskBfRw, "L145")
       \/ pc = "L145" /\ AssertCond(PEN, "L146")
       \/ pc = "L146" /\ Return(-1)
    /\ UNCHANGED primFrame

\* mutant: the byte is loaded before the flag is armed
i2c_sendLoadsFirst ==
    /\ MainRuns /\ op = "i2c_send"
    /\ \/ pc = "L156" /\ CheckIdle(MaskBfRw, "L157")
       \/ pc = "L157" /\ Load(arg.dt % 256, "L158")
       \/ pc = "L158" /\ Arm("L159")
       \/ pc = "L159" /\ Spin("L160")
       \/ pc = "L160" /\ Return(AckStatus)
    /\ UNCHANGED primFrame

i2c_send ==
    /\ MainRuns /\ op = "i2c_send"
    /\ \/ pc = "L156" /\ CheckIdle(MaskBfRw, "L157")
       \/ pc = "L157" /\ Arm("L158")
       \/ pc = "L158" /\ Load(arg.dt % 256, "L159")
       \/ pc = "L159" /\ Spin("L160")
       \/ pc = "L160" /\ Return(AckStatus)
    /\ UNCHANGED primFrame

\* dt = SSPBUF;  reading the buffer clears BF
ReadBuffer(next) ==
    /\ dt' = SSPBUF
    /\ SSPSTAT' = ClrBit(SSPSTAT, BF)
    /\ trail' = Append(trail, Ev("read", SSPBUF))
    /\ pc' = next
    /\ UNCHANGED <<SSPCON2, SSPBUF, ack_flag, op, mask, retpc, snap, ret,
                   flagHist, npoll>>

\* mutant: the acknowledge is always driven low
SetAckDataAlwaysAck(ack, next) ==
    /\ SSPCON2' = PutBit(SSPCON2, ACKDT, 0)
    /\ trail' = Append(trail, Ev("ackdt", 0))
    /\ pc' = next
    /\ UNCHANGED <<SSPSTAT, SSPBUF, ack_flag, op, mask, retpc, snap, dt, ret,
                   flagHist, npoll>>

\* SSPCON2bits.ACKDT = ack;  a one-bit field keeps the low bit
SetAckData(ack, next) ==
    /\ SSPCON2' = PutBit(SSPCON2, ACKDT, ack % 2)
    /\ trail' = Append(trail, Ev("ackdt", ack % 2))
    /\ pc' = next
    /\ UNCHANGED <<SSPSTAT, SSPBUF, ack_flag, op, mask, retpc, snap, dt, ret,
                   flagHist, npoll>>

\* mutant: the buffer is read without waiting for the reception
i2c_receiveNoWait ==
    /\ MainRuns /\ op = "i2c_receive"
    /\ \/ pc = "L173" /\ CheckIdle(MaskBfRw, "L174")
       \/ pc = "L174" /\ AssertCond(RCEN, "L176")
       \/ pc = "L176" /\ ReadBuffer("L177")
       \/ pc = "L177" /\ CheckIdle(MaskBfRw, "L178")
       \/ pc = "L178" /\ SetAckData(arg.ack, "L179")
       \/ pc = "L179" /\ AssertCond(ACKEN, "L180")
       \/ pc = "L180" /\ Return(dt)
    /\ UNCHANGED primFrame

i2c_receive ==
    /\ MainRuns /\ op = "i2c_receive"
    /\ \/ pc = "L173" /\ CheckIdle(MaskBfRw, "L174")
       \/ pc = "L174" /\ AssertCond(RCEN, "L175")
       \/ pc = "L175" /\ CheckIdle(MaskRw, "L176")
       \/ pc = "L176" /\ ReadBuffer("L177")
       \/ pc = "L177" /\ CheckIdle(MaskBfRw, "L178")
       \/ pc = "L178" /\ SetAckData(arg.ack, "L179")
       \/ pc = "L179" /\ AssertCond(ACKEN, "L180")
       \/ pc = "L180" /\ Return(dt)
    /\ UNCHANGED primFrame

(* ------------------------------------------------------------------ *)
(* Specifications                                                       *)
(* ------------------------------------------------------------------ *)

\* free runs: i2c_init_master, then up to MaxCalls primitives
Init == InitFor("free")

Next ==
    \/ Call_init \/ Call_start \/ Call_rstart \/ Call_stop \/ Call_send
    \/ Call_receive
    \/ i2c_init_master \/ i2c_check_idle \/ i2c_start \/ i2c_rstart
    \/ i2c_stop \/ i2c_send \/ i2c_receive
    \/ Dispatch \/ OtherInterrupt \/ i2c_interrupt
    \/ HwCondDone \/ HwRxDone \/ HwTxShift \/ HwTxAck \/ HwCollision

Spec == Init /\ [][Next]_vars

\* address framing: one i2c_start or i2c_rstart with any 8-bit address
InitFrame == InitFor("frame")

NextFrame ==
    \/ Call_init \/ Call_start \/ Call_rstart
    \/ i2c_init_master \/ i2c_check_idle \/ i2c_start \/ i2c_rstart
    \/ Dispatch \/ i2c_interrupt
    \/ HwCondDone \/ HwTxShift \/ HwTxAck

SpecFrame == InitFrame /\ [][NextFrame]_vars

\* the main path, the hardware, and the handler from entry to return
MainPath ==
    \/ Call_init \/ Call_start \/ Call_rstart \/ Call_stop \/ Call_send
    \/ Call_receive
    \/ i2c_init_master \/ i2c_check_idle \/ i2c_start \/ i2c_rstart
    \/ i2c_stop \/ i2c_send \/ i2c_receive

\* the hardware completes what it was asked, a pending MSSP interrupt is
\* dispatched, the handler runs to its end and the main path is not starved
Fairness ==
    /\ WF_vars(HwCondDone) /\ WF_vars(HwRxDone)
    /\ WF_vars(HwTxShift) /\ WF_vars(HwTxAck)
    /\ WF_vars(Dispatch) /\ WF_vars(i2c_interrupt)
    /\ SF_vars(MainPath)

\* start(0x50, 0); sendByte(0x10); stop() against a peer that always
\* acknowledges
InitTxn == InitFor("txn")

NextTxn ==
    \/ Call_init \/ Call_start \/ Call_send \/ Call_stop
    \/ i2c_init_master \/ i2c_check_idle \/ i2c_start \/ i2c_send \/ i2c_stop
    \/ Dispatch \/ OtherInterrupt \/ i2c_interrupt
    \/ HwCondDone \/ HwTxShift \/ HwTxAck \/ HwCollision

SpecTxn == InitTxn /\ [][NextTxn]_vars /\ Fairness

\* start(0x50, 0); stop() against a peer that never acknowledges
InitNoPeer == InitFor("nopeer")

NextNoPeer ==
    \/ Call_init \/ Call_start \/ Call_stop
    \/ i2c_init_master \/ i2c_check_idle \/ i2c_start \/ i2c_stop
    \/ Dispatch \/ OtherInterrupt \/ i2c_interrupt
    \/ HwCondDone \/ HwTxShift \/ HwTxAck \/ HwCollision

SpecNoPeer == InitNoPeer /\ [][NextNoPeer]_vars /\ Fairness

(* ------------------------------------------------------------------ *)
(* Properties                                                           *)
(* ------------------------------------------------------------------ *)

ArmLines == {"L112", "L133", "L157"}

LoadLines == {"L113", "L134", "L158"}

SpinLines == {"L114", "L135", "L159"}

RetLines == {"L115", "L136", "L160"}

Count(kind) == Cardinality({i \in DOMAIN trail : trail[i].ev = kind})

ShiftLeft1(a) == 2 * a

\* C2: for every 7-bit address a and direction d in {0, 1}, the byte that
\* i2c_start and i2c_rstart load into SSPBUF after the (repeated-)start
\* condition is (a << 1) | d, an 8-bit value; 0x50 gives 0xA0 and 0xA1.
C2_AddressFraming ==
    (pc \in {"L114", "L135"} /\ arg.adrs \in 0..127 /\ arg.rw \in {0, 1}) =>
        /\ SSPBUF = BitOr(ShiftLeft1(arg.adrs), arg.rw)
        /\ SSPBUF \in Byte
        /\ trail[Len(trail)] = Ev("load", SSPBUF)
        /\ trail[2].ev = "set" /\ trail[2].v \in {SEN, RSEN}
        /\ arg.adrs = 80 => SSPBUF = 160 + arg.rw

\* i2c_rstart has loaded 0xA1 for address 0x50, direction 1
C2_Witness ==
    /\ pc = "L135" /\ arg.adrs = 80 /\ arg.rw = 1 /\ SSPBUF = 161
    /\ BitAt(SSPSTAT, R_nW) = 1

\* C3: every armed wait returns once, and only after a run of
\* i2c_interrupt that found SSPIF pending and ack_flag set and cleared it;
\* one such run releases at most one wait.  armsOpen counts the arms the
\* handler has not cleared, clearsOpen the clears no wait has consumed.
C3_Rendezvous ==
    /\ ack_flag \in {0, 1} /\ armsOpen = ack_flag
    /\ clearsOpen \in {0, 1}
    /\ armsOpen + clearsOpen <= 1
    /\ (pc \in LoadLines \cup SpinLines) <=> (armsOpen + clearsOpen = 1)
    /\ ipc = "L56" => (SSPIF = 1 /\ ack_flag = 1)

\* the armed wait of a second primitive has returned, its clear consumed
C3_Witness ==
    /\ pc = "L160" /\ ncalls = 2
    /\ armsOpen = 0 /\ clearsOpen = 0 /\ Count("wait") = 1

\* C4: a run of i2c_interrupt entered while ack_flag is clear leaves it
\* clear and changes nothing of the main path; a wait armed later stays
\* blocked while the flag is set, and the flag is cleared only by a run of
\* the handler that was entered with the flag set.
C4_SpuriousSignal ==
    /\ [][(ipc # "none" /\ entryFlag = 0) =>
            /\ ack_flag = 0 /\ ack_flag' = 0
            /\ UNCHANGED <<mainVars, flagHist>>]_vars
    /\ [][(pc \in SpinLines /\ ack_flag = 1) => pc' = pc]_vars
    /\ [][(ack_flag = 1 /\ ack_flag' = 0) =>
            (ipc = "L56" /\ entryFlag = 1)]_vars

\* the handler runs with SSPIF pending and the flag clear, just before the
\* main path arms the flag
C4_Witness ==
    /\ ipc = "L58" /\ entryFlag = 0 /\ ack_flag = 0
    /\ pc \in ArmLines

\* all five condition bits and all masked status bits of a snapshot are zero
IdleSnapshot(s, m) ==
    /\ \A b \in {SEN, RSEN, PEN, RCEN, ACKEN} : BitAt(s.con2, b) = 0
    /\ \A i \in 0..7 : BitAt(m, i) = 1 => BitAt(s.stat, i) = 0

\* C5: i2c_check_idle returns exactly when the snapshot it has polled has
\* the five condition bits and the masked status bits all zero: at the
\* first such poll, and not while any of them is set.
C5_IdleWait ==
    /\ [][(pc = "L44" /\ Partial(snap) /\ snap' # snap) =>
            IF IdleSnapshot(Complete(snap), mask)
            THEN pc' = retpc /\ retpc # "L44"
            ELSE pc' = "L44"]_vars
    /\ [][(pc = "L44" /\ pc' # "L44") =>
            (Partial(snap) /\ IdleSnapshot(Complete(snap), mask))]_vars

\* the idle-wait before the address byte has returned after polling a busy
\* snapshot at least once
C5_Witness ==
    /\ pc = "L112" /\ npoll >= 1
    /\ CondBits(SSPCON2) = 0 /\ BitAnd(SSPSTAT, MaskBfRw) = 0

\* C6: in i2c_receive ACKEN is asserted only after the received byte has
\* been read from SSPBUF and the idle-wait with mask 0x5 that follows has
\* returned, and ACKDT then holds the caller's value: 0 for ack = 0, 1 for
\* ack = 1.
C6_ReceiveAckSequencing ==
    [][(BitAt(SSPCON2, ACKEN) = 0 /\ BitAt(SSPCON2', ACKEN) = 1) =>
         /\ pc = "L179" /\ op = "i2c_receive"
         /\ Len(trail) = 6
         /\ trail[4] = Ev("read", dt)
         /\ trail[5] = Ev("idle", 5)
         /\ trail[6] = Ev("ackdt", arg.ack)
         /\ arg.ack \in {0, 1}
         /\ BitAt(SSPCON2', ACKDT) = arg.ack]_vars

\* i2c_receive(1) has asserted ACKEN with ACKDT = 1
C6_Witness ==
    /\ pc = "L180" /\ arg.ack = 1
    /\ BitAt(SSPCON2, ACKEN) = 1 /\ BitAt(SSPCON2, ACKDT) = 1
    /\ Count("read") = 1

\* the caller has made all the calls of its scenario and the last returned
ProgramDone == pc = "caller" /\ ncalls = Len(Program(scen))

\* no condition is active and no transmit is in progress
BusIdle == CondBits(SSPCON2) = 0 /\ BitAnd(SSPSTAT, MaskBfRw) = 0

\* C7: against a peer that always acknowledges, with the hardware
\* completing every condition and byte and the handler fairly dispatched,
\* start(0x50, 0); sendByte(0x10); stop() terminates: start returns 0,
\* sendByte returns 0, stop returns and the bus then reaches idle.
C7_TransactionCompletes ==
    /\ []((pc = "caller" /\ ncalls \in {1, 2}) => ret = 0)
    /\ <>(ProgramDone /\ BusIdle)

\* stop() has returned and the stop condition has completed
C7_Witness ==
    /\ scen = "txn" /\ ProgramDone /\ BusIdle
    /\ trail = << Ev("idle", 5), Ev("set", PEN), Ev("ret", -1) >>
    /\ SSPBUF = 16

\* C8: against a peer that never acknowledges, start(0x50, 0) returns 1.
C8_NoPeerStartReturnsOne ==
    (scen = "nopeer" /\ pc = "caller" /\ ncalls = 1) => ret = 1

\* the steps of i2c_start up to its return, with the condition it asserts
StartShape(cond, a, d) ==
    << Ev("idle", 5), Ev("set", cond), Ev("idle", 5), Ev("arm", 1),
       Ev("load", AddrByte(a, d)), Ev("wait", 0) >>

Prefix(q, n) == SubSeq(q, 1, n)

\* the steps i2c_start has taken when it is at a line
StartStepsAt(line) ==
    CASE line = "L107" -> 0
      [] line = "L108" -> 1
      [] line = "L111" -> 2
      [] line = "L112" -> 3
      [] line = "L113" -> 4
      [] line = "L114" -> 5
      [] line = "L115" -> 6

\* the line of i2c_start that a line of i2c_rstart corresponds to
Twin(line) ==
    CASE line = "L128" -> "L107"
      [] line = "L129" -> "L108"
      [] line = "L132" -> "L111"
      [] line = "L133" -> "L112"
      [] line = "L134" -> "L113"
      [] line = "L135" -> "L114"
      [] line = "L136" -> "L115"

StartLines == {"L107", "L108", "L111", "L112", "L113", "L114", "L115"}

RstartLines == {"L128", "L129", "L132", "L133", "L134", "L135", "L136"}

\* C9: i2c_rstart takes the steps of i2c_start, for every address and
\* direction: idle-wait(0x5), assert, idle-wait(0x5), arm, load the
\* address byte, spin, return ACKSTAT; only the condition asserted differs
\* (RSEN for SEN).  The byte loaded and the value returned are those of
\* i2c_start.
C9_RstartMatchesStart ==
    /\ [](/\ (op = "i2c_start" /\ pc \in StartLines) =>
               trail = Prefix(StartShape(SEN, arg.adrs, arg.rw),
                              StartStepsAt(pc))
          /\ (op = "i2c_rstart" /\ pc \in RstartLines) =>
               trail = Prefix(StartShape(RSEN, arg.adrs, arg.rw),
                              StartStepsAt(Twin(pc))))
    /\ [][(pc \in {"L115", "L136"} /\ pc' # pc) =>
            /\ pc' = "caller"
            /\ ret' = BitAt(SSPCON2, ACKSTAT)
            /\ trail' = Append(trail, Ev("ret", ret'))]_vars

\* i2c_rstart is about to return after the steps of i2c_start
C9_Witness ==
    /\ op = "i2c_rstart" /\ pc = "L136" /\ arg.adrs = 127 /\ arg.rw = 1
    /\ trail = StartShape(RSEN, 127, 1)
    /\ SSPBUF = 255

\* C10: i2c_init_master programs the divisor 119 (0x77), which is
\* FOSC / (4 x rate) - 1 for FOSC = 48 MHz and 100 kHz; the same formula
\* gives 29 for 400 kHz and 11 for 1 MHz.
C10_ClockDivisor ==
    /\ (pc \notin {"reset", "L73", "L74", "L75"}) =>
           (SSPADD = 119 /\ SSPADD = Divisor(FOSC, BusRate))
    /\ (pc \in {"reset", "L73", "L74", "L75"}) => SSPADD = 0
    /\ Divisor(48000000, 100000) = 119
    /\ Divisor(48000000, 400000) = 29
    /\ Divisor(48000000, 1000000) = 11

\* i2c_init_master has returned with the divisor programmed
C10_Witness ==
    /\ pc = "caller" /\ ncalls = 0
    /\ SSPADD = 119 /\ SSPCON1 = MasterMode /\ ien.GIE = 1

\* the running handler has done this step
Did(what) == \E i \in 1..Len(hlog) : hlog[i] = what

\* the handler takes its last step
HandlerReturns == ipc # "none" /\ ipc' = "none"

\* C11: a run of i2c_interrupt that finds SSPIF pending executes SSPIF = 0
\* before it returns, whether ack_flag was set or clear when it was entered;
\* a run entered with the flag set clears the flag, and the clear of the
\* flag comes before the clear of SSPIF, which is still pending at that step.
C11_SignalCleared ==
    /\ [][(HandlerReturns /\ Did("pending")) =>
            /\ Did("sspif0")
            /\ entryFlag = 1 => Did("flag0")
            /\ \A i, j \in 1..Len(hlog) :
                 (hlog[i] = "flag0" /\ hlog[j] = "sspif0") => i < j]_vars
    /\ [][(ipc = "L58" /\ ipc' # ipc) => (SSPIF = 1 /\ SSPIF' = 0)]_vars
    /\ [][(ipc = "L56" /\ ipc' # ipc) =>
            (SSPIF = 1 /\ SSPIF' = 1 /\ ack_flag' = 0)]_vars

\* the handler has cleared the flag and then SSPIF, and is about to return
C11_Witness ==
    /\ ipc = "L60" /\ hlog = <<"pending", "flag0", "sspif0">>
    /\ entryFlag = 1 /\ ack_flag = 0 /\ SSPIF = 0

\* C12: when i2c_start, i2c_rstart or i2c_send has left its spin and is
\* about to return ACKSTAT, the byte it loaded has been shifted out and
\* answered (BF and R/W are both clear again), for every point at which the
\* handler can preempt the main path.
C12_WaitCoversOwnByte ==
    pc \in RetLines =>
        (BitAt(SSPSTAT, BF) = 0 /\ BitAt(SSPSTAT, R_nW) = 0)

\* C13: in i2c_start, i2c_rstart and i2c_send the step that arms ack_flag
\* directly follows the return of an i2c_check_idle(0x5), the next step of
\* the primitive after it is the write of SSPBUF, every write of SSPBUF
\* directly follows the arm, and no arm comes after the write.
C13_ArmThenLoad ==
    /\ \A i \in 1..Len(trail) :
         /\ trail[i].ev = "arm" =>
              /\ i > 1 /\ trail[i - 1] = Ev("idle", MaskBfRw)
              /\ i < Len(trail) => trail[i + 1].ev = "load"
         /\ trail[i].ev = "load" =>
              /\ i > 1 /\ trail[i - 1].ev = "arm"
              /\ \A j \in (i + 1)..Len(trail) : trail[j].ev # "arm"
    /\ pc \in LoadLines => trail[Len(trail)].ev = "arm"
    /\ pc \in SpinLines => trail[Len(trail)].ev = "load"

\* i2c_send has armed the flag and written the byte, and waits
C13_Witness ==
    /\ pc = "L159" /\ ack_flag = 1
    /\ Len(trail) = 3 /\ trail[2] = Ev("arm", 1) /\ trail[3] = Ev("load", 16)

\* the main path executes a statement
MainStep == MainRuns /\ <<pc, snap, npoll, trail>>' # <<pc, snap, npoll, trail>>

\* the primitives that arm the flag
Senders == {"i2c_start", "i2c_rstart", "i2c_send"}

\* C14: ack_flag goes from set to clear only in the step of i2c_interrupt at
\* line 56, taken while SSPIF is pending; it goes from clear to set only in
\* the arm step of i2c_start, i2c_rstart or i2c_send; no statement of
\* i2c_init_master, i2c_check_idle, i2c_stop or i2c_receive changes it.
C14_FlagWriters ==
    /\ [][(ack_flag = 1 /\ ack_flag' = 0) =>
            (ipc = "L56" /\ SSPIF = 1)]_vars
    /\ [][(ack_flag = 0 /\ ack_flag' = 1) =>
            (MainRuns /\ pc \in ArmLines /\ op \in Senders)]_vars
    /\ [][(MainStep /\ (pc = "L44" \/ op \notin Senders)) =>
            ack_flag' = ack_flag]_vars
    /\ [][ack_flag' # ack_flag => {ack_flag, ack_flag'} = {0, 1}]_vars

\* the handler has just cleared the flag a waiting call had armed, with
\* SSPIF still pending
C14_Witness ==
    /\ ipc = "L58" /\ Did("flag0") /\ SSPIF = 1 /\ ack_flag = 0
    /\ pc \in SpinLines /\ armsOpen = 0 /\ clearsOpen = 1

\* the condition bits of SSPCON2 that are set
ActiveConds(con2) == {b \in {SEN, RSEN, PEN, RCEN, ACKEN} : BitAt(con2, b) = 1}

\* the main path asserts a condition bit or writes SSPBUF in this step
HwActionStep ==
    /\ MainStep
    /\ \/ ActiveConds(SSPCON2') # ActiveConds(SSPCON2)
       \/ pc \in LoadLines

\* C15: every step in which the driver asserts SEN, RSEN, PEN, RCEN or
\* ACKEN or writes SSPBUF is taken with no condition bit set and no
\* transmission in progress, and follows the return of an idle-wait with
\* only the arm of the flag or the write of ACKDT between; so at most one
\* condition bit is set in any state, also after i2c_stop and i2c_receive
\* have returned with their condition still in progress.
C15_OneConditionAtATime ==
    /\ [](Cardinality(ActiveConds(SSPCON2)) <= 1)
    /\ [][HwActionStep =>
            /\ ActiveConds(SSPCON2) = {}
            /\ BitAnd(SSPSTAT, MaskBfRw) = 0]_vars
    /\ [](\A i \in 1..Len(trail) :
            trail[i].ev \in {"set", "load"} =>
                \E k \in 1..(i - 1) :
                    /\ trail[k].ev = "idle"
                    /\ \A j \in (k + 1)..(i - 1) :
                         trail[j].ev \in {"arm", "ackdt"})

\* i2c_stop has returned after another call while its stop condition is
\* still in progress
C15_Witness ==
    /\ pc = "caller" /\ ncalls = 2
    /\ ActiveConds(SSPCON2) = {PEN}

\* the main path is in the idle-wait of line 175 of i2c_receive
ReceiveWait == pc = "L44" /\ retpc = "L176"

\* this step evaluates the loop condition of that wait
ReceiveWaitEvaluates == ReceiveWait /\ Partial(snap) /\ snap' # snap

\* everything the wait of line 175 would test if RCEN were excluded from it
IdleButRcen(s) ==
    /\ \A b \in {SEN, RSEN, PEN, ACKEN} : BitAt(s.con2, b) = 0
    /\ BitAt(s.stat, R_nW) = 0

\* C16: the idle-wait of line 175 tests SSPCON2 & 0x1F like every other
\* idle-wait, RCEN included; only its status mask is narrower (R/W without
\* BF). It returns exactly when the five condition bits and R/W were read
\* as zero, so when i2c_receive reads SSPBUF at line 176 RCEN is clear and
\* the received byte is in the buffer (BF set).
C16_ReceiveWaitTestsRcen ==
    /\ [][ReceiveWaitEvaluates =>
            (pc' = "L176" <=>
                /\ IdleButRcen(Complete(snap))
                /\ BitAt(Complete(snap).con2, RCEN) = 0)]_vars
    /\ [](pc = "L176" =>
            (BitAt(SSPCON2, RCEN) = 0 /\ BitAt(SSPSTAT, BF) = 1))

\* the wait of line 175 went round while the reception was in progress and
\* has returned with the buffer full
C16_Witness ==
    /\ pc = "L176" /\ npoll >= 1
    /\ BitAt(SSPCON2, RCEN) = 0 /\ BitAt(SSPSTAT, BF) = 1

\* C16 as stated: the wait of line 175 excludes RCEN from what it tests, so
\* it returns whenever everything else is idle, RCEN set or not.
C16_WaitIgnoresRcen ==
    [][(ReceiveWaitEvaluates /\ IdleButRcen(Complete(snap))) =>
            pc' = "L176"]_vars

\* the byte i2c_receive took from SSPBUF, as recorded in its history
ByteRead == trail[4].v

\* C17: i2c_receive executes dt = SSPBUF only after the reception it
\* started with RCEN = 1 has completed (RCEN clear again, buffer full, the
\* buffer holding a byte the peer sent); dt keeps that value through the
\* idle-wait of line 177 and the acknowledge steps, and it is the value
\* returned.
C17_ReturnsByteRead ==
    /\ [][(MainStep /\ pc = "L176") =>
            /\ Len(trail) = 3
            /\ trail[2] = Ev("set", RCEN) /\ trail[3] = Ev("idle", MaskRw)
            /\ BitAt(SSPCON2, RCEN) = 0 /\ BitAt(SSPSTAT, BF) = 1
            /\ SSPBUF \in RxData
            /\ dt' = SSPBUF]_vars
    /\ []((op = "i2c_receive" /\ Count("read") = 1) =>
            (Len(trail) >= 4 /\ trail[4].ev = "read" /\ dt = ByteRead))
    /\ [][(MainStep /\ pc = "L180") => ret' = dt]_vars
    /\ []((pc = "caller" /\ Count("read") = 1) =>
            (ret = ByteRead /\ trail[Len(trail)] = Ev("ret", ByteRead)))

\* i2c_receive has returned the byte 0xA5 it read, with its acknowledge
\* still being sent
C17_Witness ==
    /\ pc = "caller" /\ Count("read") = 1 /\ ret = 165
    /\ ActiveConds(SSPCON2) = {ACKEN}

\* the handler executes a statement
HandlerStep == ipc # "none" /\ ipc' # ipc

\* C18: a run of i2c_interrupt that finds SSPIF clear goes straight to the
\* test of BCLIF; the statements of that part (lines 60 and 61) clear BCLIF
\* when it is set and write neither ack_flag nor SSPIF nor anything of the
\* main path, so the run returns with ack_flag as it was on entry and a call
\* waiting at its spin stays there; the value a primitive returns is ACKSTAT
\* or the byte read, whatever BCLIF is.
C18_ConflictOnly ==
    /\ [][(HandlerStep /\ ipc = "L54" /\ SSPIF = 0) => ipc' = "L60"]_vars
    /\ [][(HandlerStep /\ ipc \in {"L60", "L61"}) =>
            /\ ack_flag' = ack_flag /\ SSPIF' = SSPIF
            /\ UNCHANGED mainVars
            /\ (ipc = "L60" /\ BCLIF = 1) => ipc' = "L61"
            /\ ipc = "L61" => BCLIF' = 0]_vars
    /\ [][(HandlerReturns /\ ~Did("pending")) =>
            (ack_flag = entryFlag /\ ack_flag' = entryFlag)]_vars
    /\ []((ipc \in {"L60", "L61"} /\ ~Did("pending") /\ entryFlag = 1) =>
            (ack_flag = 1 /\ pc \in LoadLines \cup SpinLines))
    /\ [][(MainStep /\ pc \in RetLines) => ret' = AckStatus]_vars

\* the handler was entered for a bus conflict alone while a call waits with
\* the flag armed, and is about to clear BCLIF
C18_Witness ==
    /\ ipc = "L61" /\ hlog = <<"conflict">> /\ BCLIF = 1 /\ SSPIF = 0
    /\ pc \in SpinLines /\ ack_flag = 1

\* (a << 1) | d without reduction to 8 bits: bit 0 of a << 1 is zero, so
\* the | adds d
FramedWide(a, d) == ShiftLeft1(a) + d

\* the address reduced to its low seven bits
Low7(a) == BitAnd(a, 127)

\* i2c_start or i2c_rstart has loaded the byte for an address above 127
LoadedHighAddress ==
    /\ pc \in {"L114", "L135"}
    /\ arg.adrs \in 128..255 /\ arg.rw \in {0, 1}

\* C19: i2c_start and i2c_rstart do not check the address; for an address in
\* 128..255 bit 7 is shifted out of the 8-bit byte written to SSPBUF and is
\* lost, so the byte loaded is the one for the address reduced to its low
\* seven bits, and not the 9-bit value (a << 1) | d.
C19_HighBitDropped ==
    LoadedHighAddress =>
        /\ SSPBUF \in Byte
        /\ SSPBUF = FramedWide(Low7(arg.adrs), arg.rw)
        /\ SSPBUF # FramedWide(arg.adrs, arg.rw)
        /\ trail[Len(trail)] = Ev("load", SSPBUF)

\* i2c_start has loaded 0xA0 for address 0xD0, the byte of address 0x50
C19_Witness ==
    /\ pc = "L114" /\ arg.adrs = 208 /\ arg.rw = 0 /\ SSPBUF = 160

\* C19 as stated: for an address in 128..255 the byte loaded differs from the
\* byte loaded for the same address reduced to seven bits.
C19_HighBitChangesByte ==
    LoadedHighAddress => SSPBUF # FramedWide(Low7(arg.adrs), arg.rw)

\* no primitive is executing
BetweenCalls == pc \in {"reset", "caller"}

\* C20: with one caller at a time ack_flag is 0 or 1, it is clear whenever
\* no primitive is executing and so on return from every primitive, it is
\* set only inside i2c_start, i2c_rstart or i2c_send between the arm and the
\* end of the spin, and at most one arm is outstanding.
C20_FlagClearBetweenCalls ==
    /\ ack_flag \in {0, 1}
    /\ BetweenCalls => (ack_flag = 0 /\ armsOpen = 0)
    /\ pc \in RetLines \cup {"L146", "L180"} => ack_flag = 0
    /\ ack_flag = 1 => (op \in Senders /\ pc \in LoadLines \cup SpinLines)
    /\ armsOpen = ack_flag

\* a second call, one that armed the flag, has returned and the flag is clear
C20_Witness ==
    /\ pc = "caller" /\ ncalls = 2 /\ ack_flag = 0
    /\ Count("arm") = 1 /\ Count("ret") = 1

====
